---- MODULE Spec2Model ----
(***************************************************************************)
(* A model of graphene_sqlalchemy/types.py (ORMField, construct_fields,    *)
(* SQLAlchemyObjectType) and graphene_sqlalchemy/fields.py (the connection *)
(* field, its resolver and the connection-field factory registration).     *)
(*                                                                         *)
(* Python values are modelled as follows.  A keyword dictionary (kwargs)   *)
(* is a function whose domain is the set of keys present.  An ordered      *)
(* mapping (OrderedDict) is a sequence of entries in insertion order.      *)
(* None is the string "None"; booleans held in keyword dictionaries are    *)
(* the strings "True" and "False".                                         *)
(***************************************************************************)
EXTENDS Integers, Sequences, FiniteSets, TLC

VARIABLES
    objs,            \* heap of declared ORMField objects: id -> [creation_counter, kwargs]
    only_fields,     \* Meta.only_fields of the declarations
    exclude_fields,  \* Meta.exclude_fields of the declarations
    regOrmFields,    \* registry: records written by register_orm_field
    regTypes,        \* registry: model -> type written by register
    meta_batching,   \* Meta.batching of the declarations
    boundModel,      \* Meta.model of each type
    calls,           \* log of the direct construct_fields calls made so far
    meta,            \* per type: its _meta after __init_subclass_with_meta__, or None
    lastDecl,        \* the last type declaration: its inputs and how it ended
    typeChecks,      \* log of the is_type_of calls: type, class of root, outcome
    connection_field_factory,  \* fields.py: the module global __connection_field_factory
    factoryOps,      \* log of the calls of the factory registration functions
    args,            \* the arguments of the connection field being resolved
    dataLen,         \* the number of items of the full ordered result
    resolverReturn,  \* what the underlying resolver returns
    cpc,             \* where the resolution is: start, pending, settled, done
    resolverCalls,   \* how many times the underlying resolver was called
    raw,             \* the thenable the resolver returned: its state and value
    rcLog,           \* the values resolve_connection was called on, in order
    queryLog,        \* the queries get_query built, in order
    returned         \* what connection_resolver returned

declVars == <<only_fields, exclude_fields, meta_batching, boundModel>>

fieldVars == <<objs, regOrmFields, regTypes, calls, meta, lastDecl>>

factoryVars == <<connection_field_factory, factoryOps>>

connVars == <<args, dataLen, resolverReturn, cpc, resolverCalls, raw, rcLog, queryLog,
              returned>>

vars == <<declVars, fieldVars, typeChecks, factoryVars, connVars>>

None == "None"

(***************************************************************************)
(* Bounds.                                                                 *)
(***************************************************************************)
MaxCounter == 2      \* creation counters are drawn from 1..MaxCounter
MaxCalls == 2        \* direct construct_fields calls per behaviour
MaxTypeChecks == 2   \* is_type_of calls per behaviour
MaxOps == 3          \* calls of the factory registration functions per behaviour
MaxLen == 7          \* the full ordered result has 0..MaxLen items
MaxFirst == 3        \* the argument first is drawn from 0..MaxFirst

(***************************************************************************)
(* Keyword dictionaries.                                                   *)
(***************************************************************************)
KwGet(kw, key, default) == IF key \in DOMAIN kw THEN kw[key] ELSE default

KwSet(kw, key, v) == [k \in DOMAIN kw \cup {key} |-> IF k = key THEN v ELSE kw[k]]

KwPop(kw, key) == [k \in DOMAIN kw \ {key} |-> kw[k]]

EmptyKw == [k \in {} |-> None]

(***************************************************************************)
(* The relational model under declaration.  sqlalchemy.inspect(model)      *)
(* reports one attribute of each kind; all_model_attrs concatenates the    *)
(* column attributes, the composites, the hybrid properties and the        *)
(* relationships in that order.                                            *)
(***************************************************************************)
all_model_attrs ==
    << [name |-> "a", kind |-> "column"],
       [name |-> "c", kind |-> "composite"],
       [name |-> "h", kind |-> "hybrid"],
       [name |-> "r", kind |-> "relationship"] >>

AttrNames == {all_model_attrs[i].name : i \in 1..Len(all_model_attrs)}

AttrKind(n) ==
    LET i == CHOOSE j \in 1..Len(all_model_attrs) : all_model_attrs[j].name = n
    IN all_model_attrs[i].kind

(***************************************************************************)
(* The declared types.  Derived is a subclass of Base; the remaining       *)
(* classes of the chain (SQLAlchemyObjectType, ObjectType, object) declare *)
(* no ORMField.  An ORMField assigned to name n in the body of class t is  *)
(* the heap object <<t, n>>.                                               *)
(***************************************************************************)
Types == {"Base", "Derived"}

Mro(t) == IF t = "Derived" THEN <<"Derived", "Base">> ELSE <<"Base">>

Reversed(s) == [i \in 1..Len(s) |-> s[Len(s) + 1 - i]]

RECURSIVE SeqOfSet(_)
SeqOfSet(S) ==
    IF S = {} THEN <<>>
    ELSE LET x == CHOOSE y \in S : TRUE IN <<x>> \o SeqOfSet(S \ {x})

RECURSIVE Flatten(_)
Flatten(ss) == IF ss = <<>> THEN <<>> ELSE Head(ss) \o Flatten(Tail(ss))

(* ORMField.__init__: the options that are None are left out of kwargs. *)
ORMField(model_attr, batching, description, _creation_counter) ==
    LET common_kwargs == [model_attr |-> model_attr, batching |-> batching,
                          description |-> description]
        present == {k \in DOMAIN common_kwargs : common_kwargs[k] # None}
    IN [creation_counter |-> _creation_counter,
        kwargs |-> [k \in present |-> common_kwargs[k]]]

(***************************************************************************)
(* construct_fields.                                                       *)
(***************************************************************************)
(* Filter out excluded fields. *)
AutoOrmFieldNames(only, exclude) ==
    LET keep(attr) == ~((only # {} /\ attr.name \notin only) \/ attr.name \in exclude)
        kept == SelectSeq(all_model_attrs, keep)
    IN [i \in 1..Len(kept) |-> kept[i].name]

(* Gather all the ORM fields defined on the type, base classes first. *)
CustomOrmFieldsItems(obj_type, heap) ==
    LET bases == Reversed(Mro(obj_type))
        ofBase(b) == SeqOfSet({id \in DOMAIN heap : id[1] = b})
    IN Flatten([i \in 1..Len(bases) |-> ofBase(bases[i])])

(* sorted(items, key=item[1]): a stable sort on the creation counter. *)
RECURSIVE SortedByCounter(_, _)
SortedByCounter(items, heap) ==
    IF items = <<>> THEN <<>>
    ELSE LET n == Len(items)
             front == SortedByCounter(SubSeq(items, 1, n - 1), heap)
             x == items[n]
             p == Cardinality({i \in 1..Len(front) :
                     heap[front[i]].creation_counter <= heap[x].creation_counter})
         IN SubSeq(front, 1, p) \o <<x>> \o SubSeq(front, p + 1, Len(front))

(* Set the model_attr if not set; ValueError when the target is no attribute. *)
RECURSIVE SetModelAttrs(_, _, _)
SetModelAttrs(items, i, heap) ==
    IF i > Len(items) THEN [err |-> FALSE, heap |-> heap]
    ELSE LET id == items[i]
             attr_name == KwGet(heap[id].kwargs, "model_attr", id[2])
         IN IF attr_name \notin AttrNames
            THEN [err |-> TRUE, heap |-> heap]
            ELSE SetModelAttrs(items, i + 1,
                    [heap EXCEPT ![id].kwargs = KwSet(@, "model_attr", attr_name)])

(* OrderedDict(items): a key keeps the place of its first item and the value
   of its last item. *)
RECURSIVE OrderedDictOf(_)
OrderedDictOf(items) ==
    IF items = <<>> THEN <<>>
    ELSE LET n == Len(items)
             front == OrderedDictOf(SubSeq(items, 1, n - 1))
             x == items[n]
         IN IF \E i \in 1..Len(front) : front[i].name = x[2]
            THEN [i \in 1..Len(front) |->
                    IF front[i].name = x[2] THEN [name |-> x[2], id |-> x] ELSE front[i]]
            ELSE Append(front, [name |-> x[2], id |-> x])

(* MergeOrmFields with the custom ORM fields filtered like the automatic ones. *)
MergeOrmFieldsFiltered(items, auto) ==
    LET kept == {auto[i] : i \in 1..Len(auto)}
        custom == SelectSeq(OrderedDictOf(items), LAMBDA e : e.name \in kept)
        covered == {custom[i].name : i \in 1..Len(custom)}
        fresh == SelectSeq(auto, LAMBDA n : n \notin covered)
    IN custom \o [i \in 1..Len(fresh) |-> [name |-> fresh[i], id |-> <<"auto", fresh[i]>>]]

(* Merge automatic fields with custom ORM fields: an attribute no custom field
   is named after gets a fresh ORMField(model_attr=name). *)
MergeOrmFields(items, auto) ==
    LET custom == OrderedDictOf(items)
        covered == {custom[i].name : i \in 1..Len(custom)}
        fresh == SelectSeq(auto, LAMBDA n : n \notin covered)
    IN custom \o [i \in 1..Len(fresh) |-> [name |-> fresh[i], id |-> <<"auto", fresh[i]>>]]

AutoHeap(orm_fields) ==
    LET ids == {orm_fields[i].id : i \in 1..Len(orm_fields)}
    IN [id \in {x \in ids : x[1] = "auto"} |-> ORMField(id[2], None, None, 0)]

(* registry.register_orm_field(obj_type, field_name, orm_field) *)
RegisterOrmField(reg, obj_type, field_name, attr) ==
    {e \in reg : ~(e.type = obj_type /\ e.name = field_name)}
        \cup {[type |-> obj_type, name |-> field_name, attr |-> attr]}

(* BuildField recording the field in the registry before the composite check. *)
BuildFieldRegisterFirst(obj_type, e, batching, st) ==
    LET kw0 == st.heap[e.id].kwargs
        attr_name == kw0["model_attr"]
        kw1 == KwPop(kw0, "model_attr")
        kind == AttrKind(attr_name)
        kw2 == IF kind = "relationship" THEN KwPop(kw1, "batching") ELSE kw1
        batching_ == IF kind = "relationship" THEN KwGet(kw1, "batching", batching)
                     ELSE "na"
        field == [name |-> e.name, attr |-> attr_name, kind |-> kind,
                  batching |-> batching_, opts |-> kw2, src |-> e.id]
        done == [status |-> "ok",
                 heap |-> [st.heap EXCEPT ![e.id].kwargs = kw2],
                 reg |-> RegisterOrmField(st.reg, obj_type, e.name, attr_name),
                 fields |-> Append(st.fields, field)]
    IN IF kind = "composite" /\ (attr_name # e.name \/ DOMAIN kw2 # {})
       THEN [done EXCEPT !.status = "ValueError: composite", !.fields = st.fields]
       ELSE done

(* Build all the field dictionary.  st carries the heap, the registry and the
   fields built so far; the loop stops at the first error. *)
BuildField(obj_type, e, batching, st) ==
    LET kw0 == st.heap[e.id].kwargs
    IN IF "model_attr" \notin DOMAIN kw0 THEN [st EXCEPT !.status = "KeyError"]
       ELSE
       LET attr_name == kw0["model_attr"]
           kw1 == KwPop(kw0, "model_attr")
           kind == AttrKind(attr_name)
           kw2 == IF kind = "relationship" THEN KwPop(kw1, "batching") ELSE kw1
           batching_ == IF kind = "relationship" THEN KwGet(kw1, "batching", batching)
                        ELSE "na"
           heap2 == [st.heap EXCEPT ![e.id].kwargs = kw2]
           field == [name |-> e.name, attr |-> attr_name, kind |-> kind,
                     batching |-> batching_, opts |-> kw2, src |-> e.id]
       IN IF kind = "composite" /\ (attr_name # e.name \/ DOMAIN kw2 # {})
          THEN [st EXCEPT !.status = "ValueError: composite", !.heap = heap2]
          ELSE IF kind \notin {"column", "relationship", "composite", "hybrid"}
          THEN [st EXCEPT !.status = "Exception: not supported", !.heap = heap2]
          ELSE [status |-> "ok",
                heap |-> heap2,
                reg |-> RegisterOrmField(st.reg, obj_type, e.name, attr_name),
                fields |-> Append(st.fields, field)]

RECURSIVE BuildFields(_, _, _, _, _)
BuildFields(obj_type, orm_fields, i, batching, st) ==
    IF i > Len(orm_fields) \/ st.status # "ok" THEN st
    ELSE BuildFields(obj_type, orm_fields, i + 1, batching,
                     BuildField(obj_type, orm_fields[i], batching, st))

(* The heap after the call: the fresh ORMFields of the automatic fields are
   garbage once construct_fields returns. *)
Declared(heap) == [id \in {x \in DOMAIN heap : x[1] # "auto"} |-> heap[id]]

construct_fields(obj_type, heap, reg, only, exclude, batching) ==
    LET auto_orm_field_names == AutoOrmFieldNames(only, exclude)
        custom_orm_fields_items ==
            SortedByCounter(CustomOrmFieldsItems(obj_type, heap), heap)
        set == SetModelAttrs(custom_orm_fields_items, 1, heap)
    IN IF set.err
       THEN [status |-> "ValueError: cannot map", fields |-> <<>>,
             heap |-> set.heap, reg |-> reg]
       ELSE LET orm_fields == MergeOrmFields(custom_orm_fields_items, auto_orm_field_names)
                heap1 == set.heap @@ AutoHeap(orm_fields)
                built == BuildFields(obj_type, orm_fields, 1, batching,
                            [status |-> "ok", heap |-> heap1, reg |-> reg, fields |-> <<>>])
            IN [status |-> built.status,
                fields |-> IF built.status = "ok" THEN built.fields ELSE <<>>,
                heap |-> Declared(built.heap),
                reg |-> built.reg]

(***************************************************************************)
(* SQLAlchemyObjectType.__init_subclass_with_meta__.                       *)
(***************************************************************************)
(* if _meta.fields: _meta.fields.update(sqla_fields) else: _meta.fields =
   sqla_fields.  dict.update keeps the place of a key already present and
   replaces its value. *)
RECURSIVE DictUpdate(_, _)
DictUpdate(d, other) ==
    IF other = <<>> THEN d
    ELSE LET x == Head(other)
             d1 == IF \E i \in 1..Len(d) : d[i].name = x.name
                   THEN [i \in 1..Len(d) |-> IF d[i].name = x.name THEN x ELSE d[i]]
                   ELSE Append(d, x)
         IN DictUpdate(d1, Tail(other))

(* MergeMetaFields with the fields already in _meta kept on a collision. *)
MergeMetaFieldsKeepDeclared(meta_fields, sqla_fields) ==
    IF meta_fields # <<>> THEN DictUpdate(sqla_fields, meta_fields) ELSE sqla_fields

MergeMetaFields(meta_fields, sqla_fields) ==
    IF meta_fields # <<>> THEN DictUpdate(meta_fields, sqla_fields) ELSE sqla_fields

(* registry.register(cls): the registry maps the model of cls to cls. *)
Register(reg, cls, model) == KwSet(reg, model, cls)

(* use_connection is None and no connection is given: a connection named
   "<cls>Connection" is created when one of the interfaces is a Node. *)
ConnectionFor(cls, interfaces) ==
    LET use_connection == \E i \in interfaces : i = "Node"
    IN IF use_connection THEN <<cls, "Connection">> ELSE <<None>>

(* A field of the _meta handed in by a subclass of the type-system runtime. *)
DeclaredField(n) ==
    [name |-> n, attr |-> None, kind |-> "declared", batching |-> "na",
     opts |-> EmptyKw, src |-> <<"meta", n>>]

(* The _meta of a class not declared yet. *)
NoMeta == [model |-> None, fields |-> <<>>, connection |-> <<None>>, id |-> None]

InitSubclassWithMeta(cls, skip_registry, interfaces, pre_fields) ==
    /\ meta[cls] = NoMeta
    /\ IF only_fields # {} /\ exclude_fields # {}
       THEN /\ lastDecl' = [cls |-> cls, status |-> "ValueError: both set",
                            pre_fields |-> pre_fields, sqla_fields |-> <<>>]
            /\ UNCHANGED <<objs, regOrmFields, regTypes, meta>>
       ELSE \E r \in {construct_fields(cls, objs, regOrmFields, only_fields,
                                       exclude_fields, meta_batching)} :
               /\ objs' = r.heap
               /\ regOrmFields' = r.reg
               /\ lastDecl' = [cls |-> cls, status |-> r.status,
                               pre_fields |-> pre_fields, sqla_fields |-> r.fields]
               /\ IF r.status = "ok"
                  THEN /\ meta' = [meta EXCEPT ![cls] =
                                     [model |-> boundModel[cls],
                                      fields |-> MergeMetaFields(pre_fields, r.fields),
                                      connection |-> ConnectionFor(cls, interfaces),
                                      id |-> "id"]]
                       /\ regTypes' = IF skip_registry THEN regTypes
                                      ELSE Register(regTypes, cls, boundModel[cls])
                  ELSE UNCHANGED <<meta, regTypes>>
    /\ UNCHANGED <<declVars, calls, typeChecks, factoryVars, connVars>>

(***************************************************************************)
(* fields.py: UnsortedSQLAlchemyConnectionField.                           *)
(*                                                                         *)
(* An optional argument is a sequence: empty when the argument is absent   *)
(* (args.get gives None), of one element otherwise.  The items of the full *)
(* ordered result are 1..len in their order.  A resolved value is None, a  *)
(* list, a Query or a thenable.                                            *)
(***************************************************************************)
Value(kind, len, order_by) == [kind |-> kind, len |-> len, order_by |-> order_by]

NoValue == Value("None", 0, <<>>)

Thenable == Value("thenable", 0, <<>>)

(* utils.EnumValue: a str that carries the sort clause in its value. *)
EnumValue(str_value, value) == [str |-> str_value, value |-> value]

SortEnum == {EnumValue("A_DESC", "a desc"), EnumValue("B_ASC", "b asc")}

(* utils.get_query: the query of the model, with no order-by clause. *)
ModelQuery(len) == Value("query", len, <<>>)

(* Query.order_by: the clauses are added to those of the query. *)
OrderBy(query, clauses) == [query EXCEPT !.order_by = @ \o clauses]

(* get_query applying the sort entries last to first. *)
get_query_reversed(len, sort) ==
    LET query == ModelQuery(len)
    IN IF sort # <<>>
       THEN OrderBy(query, Reversed([i \in 1..Len(sort[1].items) |-> sort[1].items[i].value]))
       ELSE query

get_query(len, sort) ==
    LET query == ModelQuery(len)
    IN IF sort # <<>>
       THEN IF sort[1].isstr
            THEN OrderBy(query, <<sort[1].items[1].value>>)
            ELSE OrderBy(query, [i \in 1..Len(sort[1].items) |-> sort[1].items[i].value])
       ELSE query

(* graphql_relay: cursors. *)
PREFIX == "arrayconnection:"

offset_to_cursor(offset) == [prefix |-> PREFIX, offset |-> offset]

get_offset_with_default(cursor, default_offset) ==
    IF cursor = <<>> THEN default_offset
    ELSE IF cursor[1].prefix = PREFIX THEN cursor[1].offset ELSE default_offset

Max(S) == CHOOSE x \in S : \A y \in S : y <= x

Min(S) == CHOOSE x \in S : \A y \in S : x <= y

(* list_slice[lo:hi] on the items 1..len, for lo >= 0. *)
PySlice(len, lo, hi) ==
    LET top == IF hi < 0 THEN Max({len + hi, 0}) ELSE Min({hi, len})
    IN [i \in 1..Max({top - lo, 0}) |-> lo + i]

(* graphql_relay.connection.arrayconnection.connection_from_list_slice *)
connection_from_list_slice(list_slice, a, slice_start, list_length, list_slice_length) ==
    LET slice_end == slice_start + list_slice_length
        before_offset == get_offset_with_default(a.before, list_length)
        after_offset == get_offset_with_default(a.after, -1)
        start0 == Max({slice_start - 1, after_offset, -1}) + 1
        end0 == Min({slice_end, before_offset, list_length})
        end_offset == IF a.first # <<>> THEN Min({end0, start0 + a.first[1]}) ELSE end0
        start_offset == IF a.last # <<>> THEN Max({start0, end_offset - a.last[1]}) ELSE start0
        slice == PySlice(list_slice.len, Max({start_offset - slice_start, 0}),
                         list_slice_length - (slice_end - end_offset))
        edges == [i \in 1..Len(slice) |->
                    [node |-> slice[i], cursor |-> offset_to_cursor(start_offset + i - 1)]]
        lower_bound == IF a.after # <<>> THEN after_offset + 1 ELSE 0
        upper_bound == IF a.before # <<>> THEN before_offset ELSE list_length
    IN [edges |-> edges,
        page_info |->
            [start_cursor |-> IF edges # <<>> THEN <<edges[1].cursor>> ELSE <<>>,
             end_cursor |-> IF edges # <<>> THEN <<edges[Len(edges)].cursor>> ELSE <<>>,
             has_previous_page |-> a.last # <<>> /\ start_offset > lower_bound,
             has_next_page |-> a.first # <<>> /\ end_offset < upper_bound]]

(* resolve_connection paginating a result one item shorter than it is. *)
resolve_connection_short(a, resolved0, len) ==
    LET resolved == IF resolved0 = NoValue THEN get_query(len, a.sort) ELSE resolved0
        _len == IF resolved.len > 0 THEN resolved.len - 1 ELSE 0
        connection == connection_from_list_slice(resolved, a, 0, _len, _len)
    IN [edges |-> connection.edges, page_info |-> connection.page_info,
        iterable |-> resolved, length |-> _len]

resolve_connection(a, resolved0, len) ==
    LET resolved == IF resolved0 = NoValue THEN get_query(len, a.sort) ELSE resolved0
        _len == resolved.len
        connection == connection_from_list_slice(resolved, a, 0, _len, _len)
    IN [edges |-> connection.edges, page_info |-> connection.page_info,
        iterable |-> resolved, length |-> _len]

NoConnection ==
    [edges |-> <<>>,
     page_info |-> [start_cursor |-> <<>>, end_cursor |-> <<>>,
                    has_previous_page |-> FALSE, has_next_page |-> FALSE],
     iterable |-> NoValue, length |-> 0]

Returned(kind, state, value) == [kind |-> kind, state |-> state, value |-> value]

QueriesOf(resolved) ==
    IF resolved = NoValue THEN Append(queryLog, get_query(dataLen, args.sort)) ELSE queryLog

(* connection_resolver: the resolver is called; on_resolve runs at once on a
   value that is not thenable, and is registered as the continuation of a
   thenable, the promise of which is returned. *)
ConnectionResolverEager ==
    /\ cpc = "start"
    /\ resolverCalls' = resolverCalls + 1
    /\ rcLog' = Append(rcLog, resolverReturn)
    /\ queryLog' = QueriesOf(resolverReturn)
    /\ returned' = Returned("connection", "na",
                            resolve_connection(args, resolverReturn, dataLen))
    /\ cpc' = IF resolverReturn = Thenable THEN "pending" ELSE "done"
    /\ UNCHANGED <<args, dataLen, resolverReturn, raw>>
    /\ UNCHANGED <<declVars, fieldVars, typeChecks, factoryVars>>

ConnectionResolver ==
    /\ cpc = "start"
    /\ resolverCalls' = resolverCalls + 1
    /\ IF resolverReturn = Thenable
       THEN /\ returned' = Returned("promise", "pending", NoConnection)
            /\ cpc' = "pending"
            /\ UNCHANGED <<rcLog, queryLog>>
       ELSE /\ rcLog' = Append(rcLog, resolverReturn)
            /\ queryLog' = QueriesOf(resolverReturn)
            /\ returned' = Returned("connection", "na",
                                    resolve_connection(args, resolverReturn, dataLen))
            /\ cpc' = "done"
    /\ UNCHANGED <<args, dataLen, resolverReturn, raw>>
    /\ UNCHANGED <<declVars, fieldVars, typeChecks, factoryVars>>

(* The thenable of the resolver is fulfilled with a value, or rejected. *)
Settle(state, value) ==
    /\ cpc = "pending"
    /\ raw' = [state |-> state, value |-> value]
    /\ cpc' = "settled"
    /\ UNCHANGED <<args, dataLen, resolverReturn, resolverCalls, rcLog, queryLog, returned>>
    /\ UNCHANGED <<declVars, fieldVars, typeChecks, factoryVars>>

(* Promise.resolve(resolved).then(on_resolve): the continuation runs on the
   value of the fulfilled thenable and fulfils the returned promise. *)
OnResolve ==
    /\ cpc = "settled"
    /\ raw.state = "fulfilled"
    /\ rcLog' = Append(rcLog, raw.value)
    /\ queryLog' = QueriesOf(raw.value)
    /\ returned' = Returned("promise", "fulfilled",
                            resolve_connection(args, raw.value, dataLen))
    /\ cpc' = "done"
    /\ UNCHANGED <<args, dataLen, resolverReturn, resolverCalls, raw>>
    /\ UNCHANGED <<declVars, fieldVars, typeChecks, factoryVars>>

(* A rejected thenable rejects the returned promise; on_resolve does not run. *)
OnReject ==
    /\ cpc = "settled"
    /\ raw.state = "rejected"
    /\ returned' = Returned("promise", "rejected", NoConnection)
    /\ cpc' = "done"
    /\ UNCHANGED <<args, dataLen, resolverReturn, resolverCalls, raw, rcLog, queryLog>>
    /\ UNCHANGED <<declVars, fieldVars, typeChecks, factoryVars>>

ConnIdle ==
    /\ args = [first |-> <<>>, after |-> <<>>, last |-> <<>>, before |-> <<>>, sort |-> <<>>]
    /\ dataLen = 0
    /\ resolverReturn = NoValue
    /\ cpc = "idle"
    /\ resolverCalls = 0
    /\ raw = [state |-> "none", value |-> NoValue]
    /\ rcLog = <<>>
    /\ queryLog = <<>>
    /\ returned = Returned("nothing", "na", NoConnection)

(***************************************************************************)
(* The declarations explored.  The body of each class assigns at most one  *)
(* ORMField; its options and its creation counter are drawn from the sets  *)
(* given.                                                                  *)
(***************************************************************************)
EmptyHeap == [id \in {} |-> None]

Heaps(names, model_attrs, batchings, descriptions) ==
    LET Fields == {ORMField(ma, b, d, c) : ma \in model_attrs, b \in batchings,
                                           d \in descriptions, c \in 1..MaxCounter}
        Bodies(t) == {EmptyHeap} \cup
                     {[id \in {<<t, n>>} |-> f] : n \in names, f \in Fields}
    IN {b @@ d : b \in Bodies("Base"), d \in Bodies("Derived")}

NoDecl == [cls |-> None, status |-> None, pre_fields |-> <<>>, sqla_fields |-> <<>>]

FieldsIdle ==
    /\ regOrmFields = {}
    /\ regTypes = EmptyKw
    /\ calls = <<>>
    /\ meta = [t \in Types |-> NoMeta]
    /\ lastDecl = NoDecl

(***************************************************************************)
(* fields.py: the connection-field factory registration.                   *)
(***************************************************************************)
default_connection_field_factory == [kind |-> "default", of |-> None]

(* registerConnectionFieldFactory wraps the factory method it is given. *)
old_factory_method_wrapper(factoryMethod) == [kind |-> "wrapper", of |-> factoryMethod]

FactoryIdle ==
    /\ connection_field_factory = default_connection_field_factory
    /\ factoryOps = <<>>

(* A direct call of construct_fields for obj_type with the Meta options. *)
ConstructFields(obj_type) ==
    /\ Len(calls) < MaxCalls
    /\ \E r \in {construct_fields(obj_type, objs, regOrmFields, only_fields,
                                  exclude_fields, meta_batching)} :
          /\ objs' = r.heap
          /\ regOrmFields' = r.reg
          /\ calls' = Append(calls, [obj_type |-> obj_type, status |-> r.status,
                                     fields |-> r.fields])
    /\ UNCHANGED <<declVars, regTypes, meta, lastDecl, typeChecks, factoryVars, connVars>>

InitFields ==
    /\ objs \in Heaps({"a", "c", "r", "x"}, {None, "a"}, {None, "True"}, {None, "d"})
    /\ only_fields \in {{}, {"a", "r"}}
    /\ exclude_fields = {}
    /\ meta_batching = "False"
    /\ boundModel = [t \in Types |-> "M"]
    /\ FieldsIdle
    /\ typeChecks = <<>>
    /\ FactoryIdle
    /\ ConnIdle

NextFields == \E t \in Types : ConstructFields(t)

SpecFields == InitFields /\ [][NextFields]_vars

(* A class statement: Base is declared before Derived, which cannot be
   declared once the declaration of Base has failed. *)
DeclareType(cls, skip_registry, interfaces, pre_fields) ==
    /\ \/ lastDecl = NoDecl
       \/ lastDecl.cls = "Base" /\ lastDecl.status = "ok" /\ cls = "Derived"
    /\ InitSubclassWithMeta(cls, skip_registry, interfaces, pre_fields)

PreFields == {<<>>, <<DeclaredField("a"), DeclaredField("z")>>}

InitType ==
    /\ objs \in Heaps({"a", "c", "x"}, {None}, {None}, {None, "d"})
    /\ \E o \in {<<{}, {}>>, <<{"a", "c"}, {}>>, <<{}, {"a"}>>, <<{"a", "c"}, {"a"}>>} :
          only_fields = o[1] /\ exclude_fields = o[2]
    /\ meta_batching = "False"
    /\ boundModel = [t \in Types |-> IF t = "Base" THEN "M" ELSE "SubM"]
    /\ FieldsIdle
    /\ typeChecks = <<>>
    /\ FactoryIdle
    /\ ConnIdle

NextType ==
    \E cls \in Types, skip_registry \in BOOLEAN, interfaces \in {{}, {"Node"}},
       pre_fields \in PreFields :
        DeclareType(cls, skip_registry, interfaces, pre_fields)

SpecType == InitType /\ [][NextType]_vars

(***************************************************************************)
(* SQLAlchemyObjectType.is_type_of.  The class of root is a declared type, *)
(* a mapped model (SubM is a subclass of M, Other is unrelated) or a class *)
(* that is neither.                                                        *)
(***************************************************************************)
Models == {"M", "SubM", "Other"}

RootClasses == Types \cup Models \cup {"object"}

(* The classes c is a subclass of (c included). *)
Ancestors(c) ==
    CASE c = "Derived" -> {"Derived", "Base"}
      [] c = "SubM" -> {"SubM", "M"}
      [] OTHER -> {c}

isinstance(rootClass, c) == c \in Ancestors(rootClass)

(* utils.is_mapped_instance: the object has a mapper. *)
is_mapped_instance(rootClass) == rootClass \in Models

(* is_type_of with the class of root compared to the model itself. *)
is_type_of_exact(cls, rootClass) ==
    IF isinstance(rootClass, cls) THEN "True"
    ELSE IF ~is_mapped_instance(rootClass) THEN "Exception"
    ELSE IF rootClass = meta[cls].model THEN "True" ELSE "False"

is_type_of(cls, rootClass) ==
    IF isinstance(rootClass, cls) THEN "True"
    ELSE IF ~is_mapped_instance(rootClass) THEN "Exception"
    ELSE IF isinstance(rootClass, meta[cls].model) THEN "True" ELSE "False"

IsTypeOf(cls, rootClass) ==
    /\ meta[cls] # NoMeta
    /\ Len(typeChecks) < MaxTypeChecks
    /\ typeChecks' = Append(typeChecks, [cls |-> cls, root |-> rootClass,
                                         model |-> meta[cls].model,
                                         result |-> is_type_of(cls, rootClass)])
    /\ UNCHANGED <<declVars, fieldVars, factoryVars, connVars>>

InitTypeOf ==
    /\ objs = EmptyHeap
    /\ only_fields = {}
    /\ exclude_fields = {}
    /\ meta_batching = "False"
    /\ boundModel \in [Types -> Models]
    /\ FieldsIdle
    /\ typeChecks = <<>>
    /\ FactoryIdle
    /\ ConnIdle

NextTypeOf ==
    \/ \E cls \in Types : DeclareType(cls, FALSE, {"Node"}, <<>>)
    \/ \E cls \in Types, rootClass \in RootClasses : IsTypeOf(cls, rootClass)

SpecTypeOf == InitTypeOf /\ [][NextTypeOf]_vars

(***************************************************************************)
(* The factory registration functions of fields.py.                        *)
(***************************************************************************)
Factories == {[kind |-> "factory", of |-> "f1"], [kind |-> "factory", of |-> "f2"]}

Logged(op, f) == /\ Len(factoryOps) < MaxOps
                 /\ factoryOps' = Append(factoryOps, [op |-> op, f |-> f])

(* register_connection_field_factory with the global statement left out: the
   assignment binds a local name. *)
RegisterLocal(connection_factory) ==
    /\ Logged("register", connection_factory)
    /\ UNCHANGED connection_field_factory
    /\ UNCHANGED <<declVars, fieldVars, typeChecks, connVars>>

register_connection_field_factory(connection_factory) ==
    /\ Logged("register", connection_factory)
    /\ connection_field_factory' = connection_factory
    /\ UNCHANGED <<declVars, fieldVars, typeChecks, connVars>>

unregister_connection_field_factory ==
    /\ Logged("unregister", default_connection_field_factory)
    /\ connection_field_factory' = default_connection_field_factory
    /\ UNCHANGED <<declVars, fieldVars, typeChecks, connVars>>

(* The deprecated spellings: the first registers a wrapper of the factory
   method, the second unregisters. *)
registerConnectionFieldFactory(factoryMethod) ==
    /\ Logged("register", old_factory_method_wrapper(factoryMethod))
    /\ connection_field_factory' = old_factory_method_wrapper(factoryMethod)
    /\ UNCHANGED <<declVars, fieldVars, typeChecks, connVars>>

unregisterConnectionFieldFactory ==
    /\ Logged("unregister", default_connection_field_factory)
    /\ connection_field_factory' = default_connection_field_factory
    /\ UNCHANGED <<declVars, fieldVars, typeChecks, connVars>>

(* create_connection_field calls the active factory; the log keeps which. *)
create_connection_field ==
    /\ Logged("create", connection_field_factory)
    /\ UNCHANGED connection_field_factory
    /\ UNCHANGED <<declVars, fieldVars, typeChecks, connVars>>

InitFactory ==
    /\ objs = EmptyHeap
    /\ only_fields = {}
    /\ exclude_fields = {}
    /\ meta_batching = "False"
    /\ boundModel = [t \in Types |-> "M"]
    /\ FieldsIdle
    /\ typeChecks = <<>>
    /\ FactoryIdle
    /\ ConnIdle

NextFactory ==
    \/ \E f \in Factories : register_connection_field_factory(f)
    \/ unregister_connection_field_factory
    \/ \E f \in Factories : registerConnectionFieldFactory(f.of)
    \/ unregisterConnectionFieldFactory
    \/ create_connection_field

SpecFactory == InitFactory /\ [][NextFactory]_vars

(* What a resolver returns or a thenable is fulfilled with. *)
ConcreteValues(len) == {NoValue, Value("list", len, <<>>), Value("query", len, <<"resolver">>)}

SortArgs ==
    {<<>>} \cup {<<[isstr |-> TRUE, items |-> <<e>>]>> : e \in SortEnum}
           \cup {<<[isstr |-> FALSE, items |-> s]>> :
                    s \in {<<>>} \cup {<<e1, e2>> : e1 \in SortEnum, e2 \in SortEnum}}

Cursors ==
    {<<>>, <<[prefix |-> "garbage", offset |-> 0]>>}
        \cup {<<offset_to_cursor(o)>> : o \in 0..(MaxLen - 1)}

InitConn ==
    /\ objs = EmptyHeap
    /\ only_fields = {}
    /\ exclude_fields = {}
    /\ meta_batching = "False"
    /\ boundModel = [t \in Types |-> "M"]
    /\ FieldsIdle
    /\ typeChecks = <<>>
    /\ FactoryIdle
    /\ dataLen \in 0..MaxLen
    /\ \E first \in {<<>>} \cup {<<n>> : n \in 0..MaxFirst}, after \in Cursors,
          last \in {<<>>, <<1>>}, before \in {<<>>, <<offset_to_cursor(1)>>},
          sort \in SortArgs :
          args = [first |-> first, after |-> after, last |-> last, before |-> before,
                  sort |-> sort]
    /\ resolverReturn \in ConcreteValues(dataLen) \cup {Thenable}
    /\ cpc = "start"
    /\ resolverCalls = 0
    /\ raw = [state |-> IF resolverReturn = Thenable THEN "pending" ELSE "none",
              value |-> NoValue]
    /\ rcLog = <<>>
    /\ queryLog = <<>>
    /\ returned = Returned("nothing", "na", NoConnection)

NextConn ==
    \/ ConnectionResolver
    \/ \E v \in ConcreteValues(dataLen) : Settle("fulfilled", v)
    \/ Settle("rejected", NoValue)
    \/ OnResolve
    \/ OnReject

SpecConn == InitConn /\ [][NextConn]_vars

(***************************************************************************)
(* Properties of construct_fields and of the type constructor.             *)
(***************************************************************************)
Keys(fields) == {fields[i].name : i \in 1..Len(fields)}

Entry(fields, n) == fields[CHOOSE i \in 1..Len(fields) : fields[i].name = n]

(* The per-key configuration of a field mapping: target attribute, batching
   flag and passthrough options of every key. *)
Config(fields) ==
    {[name |-> fields[i].name, attr |-> fields[i].attr,
      batching |-> fields[i].batching, opts |-> fields[i].opts] : i \in 1..Len(fields)}

(* The names the classes of the chain of t assign an ORMField to. *)
DeclaredNames(t) == {id[2] : id \in {x \in DOMAIN objs : \E i \in 1..Len(Mro(t)) : Mro(t)[i] = x[1]}}

(* C1: two construct_fields calls in a row for the same type and options
   either both succeed, with the same keys and the same per-key
   configuration, or both fail. *)
C1_Idempotent ==
    \A i \in 1..(Len(calls) - 1) :
        calls[i].obj_type = calls[i + 1].obj_type =>
            /\ (calls[i].status = "ok") <=> (calls[i + 1].status = "ok")
            /\ Config(calls[i].fields) = Config(calls[i + 1].fields)

(* C2 as stated: with a non-empty only_fields the keys of the mapping are
   exactly the model attributes named in only_fields. *)
C2_OnlyFieldsExact ==
    \A i \in 1..Len(calls) :
        (calls[i].status = "ok" /\ only_fields # {}) =>
            Keys(calls[i].fields) = AttrNames \cap only_fields

(* C2 amended: with a non-empty only_fields the keys of the mapping are the
   model attributes named in only_fields together with the name of every
   ORMField of the chain of the type, filtered out or not. *)
C2_OnlyFieldsAndOverrides ==
    \A i \in 1..Len(calls) :
        (calls[i].status = "ok" /\ only_fields # {}) =>
            Keys(calls[i].fields) =
                (AttrNames \cap only_fields) \cup DeclaredNames(calls[i].obj_type)

C2_Witness ==
    \E i \in 1..Len(calls) :
        /\ calls[i].status = "ok"
        /\ only_fields # {}
        /\ \E n \in Keys(calls[i].fields) :
              n \notin only_fields /\ Entry(calls[i].fields, n).attr \notin only_fields

(* C3: a name assigned an ORMField both in Base and in Derived is built from
   the ORMField of Derived, whatever the creation counters. *)
C3_MostDerivedWins ==
    \A i \in 1..Len(calls) :
        (calls[i].status = "ok" /\ calls[i].obj_type = "Derived") =>
            \A n \in Keys(calls[i].fields) :
                (<<"Base", n>> \in DOMAIN objs /\ <<"Derived", n>> \in DOMAIN objs) =>
                    Entry(calls[i].fields, n).src = <<"Derived", n>>

(* C4 as stated: a name both in the fields already in _meta and in the
   output of construct_fields holds the field already in _meta. *)
C4_DeclaredFieldWins ==
    lastDecl.status = "ok" =>
        LET final == meta[lastDecl.cls].fields
        IN /\ Keys(final) = Keys(lastDecl.pre_fields) \cup Keys(lastDecl.sqla_fields)
           /\ \A n \in Keys(lastDecl.pre_fields) :
                 Entry(final, n) = Entry(lastDecl.pre_fields, n)

(* C4 amended: such a name holds the field construct_fields built; a name in
   only one of the two mappings keeps its field. *)
C4_GeneratedFieldWins ==
    lastDecl.status = "ok" =>
        LET final == meta[lastDecl.cls].fields
        IN /\ Keys(final) = Keys(lastDecl.pre_fields) \cup Keys(lastDecl.sqla_fields)
           /\ \A n \in Keys(lastDecl.sqla_fields) :
                 Entry(final, n) = Entry(lastDecl.sqla_fields, n)
           /\ \A n \in Keys(lastDecl.pre_fields) \ Keys(lastDecl.sqla_fields) :
                 Entry(final, n) = Entry(lastDecl.pre_fields, n)

C4_Witness ==
    /\ lastDecl.status = "ok"
    /\ Keys(lastDecl.pre_fields) \cap Keys(lastDecl.sqla_fields) # {}
    /\ Keys(lastDecl.pre_fields) \ Keys(lastDecl.sqla_fields) # {}
    /\ Keys(lastDecl.sqla_fields) \ Keys(lastDecl.pre_fields) # {}

Failed == lastDecl.status \notin {None, "ok"}

RecordsOf(t) == {e \in regOrmFields : e.type = t}

Registered(t) == \E m \in DOMAIN regTypes : regTypes[m] = t

(* C10 as stated: a declaration that fails leaves no register_orm_field
   record of the declared type and no registration of the type. *)
C10_FailureLeavesRegistry ==
    Failed => (RecordsOf(lastDecl.cls) = {} /\ ~Registered(lastDecl.cls))

(* C10 amended: a declaration that fails leaves no registration of the type;
   it leaves no register_orm_field record when it fails before the build
   loop (both options set, target attribute missing); a composite error,
   raised in the loop, leaves the records of the ORMFields built before the
   failing one and none of the failing one or of a later field. *)
C10_FailureLeavesBuiltRecords ==
    Failed =>
        /\ ~Registered(lastDecl.cls)
        /\ lastDecl.status \in {"ValueError: both set", "ValueError: cannot map"} =>
              RecordsOf(lastDecl.cls) = {}
        /\ lastDecl.status = "ValueError: composite" =>
              /\ {e.name : e \in RecordsOf(lastDecl.cls)} \subseteq DeclaredNames(lastDecl.cls)
              /\ Cardinality(RecordsOf(lastDecl.cls)) < Cardinality(DeclaredNames(lastDecl.cls))

C10_Witness ==
    /\ lastDecl.status = "ValueError: composite"
    /\ RecordsOf(lastDecl.cls) # {}

(***************************************************************************)
(* Properties of is_type_of.                                               *)
(***************************************************************************)
(* C8 as stated: is_type_of is true for an instance of the type; otherwise
   true only for a mapped instance of exactly the bound model; and raises for
   a root that is neither an instance of the type nor a mapped instance. *)
C8_ExactModelOnly ==
    \A i \in 1..Len(typeChecks) :
        LET t == typeChecks[i]
        IN /\ t.cls \in Ancestors(t.root) => t.result = "True"
           /\ (t.cls \notin Ancestors(t.root) /\ t.result = "True") => t.root = t.model
           /\ t.result = "Exception" <=>
                 (t.cls \notin Ancestors(t.root) /\ t.root \notin Models)

(* C8 amended: otherwise true exactly for a mapped instance of the bound
   model or of a subclass of it, false for a mapped instance of any other
   model. *)
C8_ModelOrSubclass ==
    \A i \in 1..Len(typeChecks) :
        LET t == typeChecks[i]
        IN /\ t.cls \in Ancestors(t.root) => t.result = "True"
           /\ t.cls \notin Ancestors(t.root) =>
                 /\ t.result = "True" <=> (t.root \in Models /\ t.model \in Ancestors(t.root))
                 /\ t.result = "False" <=> (t.root \in Models /\ t.model \notin Ancestors(t.root))
                 /\ t.result = "Exception" <=> t.root \notin Models

C8_Witness ==
    \E i \in 1..Len(typeChecks) :
        /\ typeChecks[i].root = "SubM"
        /\ typeChecks[i].model = "M"
        /\ typeChecks[i].result = "True"

(***************************************************************************)
(* Properties of the factory registration.                                 *)
(***************************************************************************)
(* The factory the calls logged in h leave active: that of the last register
   call when no unregister call follows it, the default one otherwise. *)
RECURSIVE ActiveAfter(_)
ActiveAfter(h) ==
    IF h = <<>> THEN default_connection_field_factory
    ELSE LET last == h[Len(h)]
         IN CASE last.op = "register" -> last.f
              [] last.op = "unregister" -> default_connection_field_factory
              [] OTHER -> ActiveAfter(SubSeq(h, 1, Len(h) - 1))

(* C9: create_connection_field delegates to the factory of the most recent
   register call no unregister call followed, to the default factory
   otherwise, and create_connection_field leaves the active factory alone. *)
C9_SingleActiveFactory ==
    /\ connection_field_factory = ActiveAfter(factoryOps)
    /\ \A i \in 1..Len(factoryOps) :
          factoryOps[i].op = "create" =>
              factoryOps[i].f = ActiveAfter(SubSeq(factoryOps, 1, i - 1))

C9_Witness ==
    /\ Len(factoryOps) = 3
    /\ factoryOps[1].op = "register"
    /\ factoryOps[2].op = "register"
    /\ factoryOps[2].f # factoryOps[1].f
    /\ factoryOps[3].op = "create"
    /\ factoryOps[3].f = factoryOps[2].f

(***************************************************************************)
(* Properties of the connection field.                                     *)
(***************************************************************************)
(* The value resolve_connection paginates when called on v. *)
Paginated(v) == IF v = NoValue THEN queryLog[Len(queryLog)] ELSE v

(* C5: the resolver is called exactly once; for a thenable the resolver
   returns a pending promise with no pagination step run, and
   resolve_connection runs once, after the thenable is fulfilled and on its
   value, its result fulfilling the promise; for a concrete value
   resolve_connection has run once when connection_resolver returns. *)
C5_ResolvesOnceWithoutBlocking ==
    /\ cpc = "start" => (resolverCalls = 0 /\ rcLog = <<>>)
    /\ cpc \in {"pending", "settled", "done"} => resolverCalls = 1
    /\ Len(rcLog) <= 1
    /\ resolverReturn = Thenable =>
          /\ cpc \in {"pending", "settled"} =>
                (returned = Returned("promise", "pending", NoConnection) /\ rcLog = <<>>)
          /\ rcLog # <<>> =>
                /\ raw.state = "fulfilled"
                /\ rcLog[1] = raw.value
                /\ returned.kind = "promise"
                /\ returned.state = "fulfilled"
                /\ returned.value.iterable = Paginated(raw.value)
          /\ (cpc = "done" /\ raw.state = "fulfilled") => Len(rcLog) = 1
          /\ (cpc = "done" /\ raw.state = "rejected") =>
                (rcLog = <<>> /\ returned.state = "rejected")
    /\ (resolverReturn # Thenable /\ cpc # "start") =>
          /\ cpc = "done"
          /\ rcLog = <<resolverReturn>>
          /\ returned.kind = "connection"
          /\ returned.value.iterable = Paginated(resolverReturn)

C5_Witness ==
    /\ resolverReturn = Thenable
    /\ cpc = "done"
    /\ raw.state = "fulfilled"
    /\ Len(rcLog) = 1
    /\ returned.state = "fulfilled"

Completed == cpc = "done" /\ rcLog # <<>>

Nodes(connection) == [i \in 1..Len(connection.edges) |-> connection.edges[i].node]

(* The items lo..hi of the full ordered result. *)
Items(lo, hi) == [i \in 1..Max({hi - lo + 1, 0}) |-> lo + i - 1]

(* C6: with first = n and no cursor the edges are the first min(n, L) items,
   hasNextPage is n < L and hasPreviousPage is false; with after = the
   cursor of item k the edges are the items k+1 .. min(k+n, L) and
   hasNextPage is k+n < L. *)
C6_FirstAfterPagination ==
    (Completed /\ args.first # <<>> /\ args.last = <<>> /\ args.before = <<>>) =>
        LET n == args.first[1]
            L == dataLen
            c == returned.value
        IN /\ args.after = <<>> =>
                /\ Nodes(c) = Items(1, Min({n, L}))
                /\ c.page_info.has_next_page = (n < L)
                /\ c.page_info.has_previous_page = FALSE
           /\ \A k \in 1..L :
                args.after = <<offset_to_cursor(k - 1)>> =>
                    /\ Nodes(c) = Items(k + 1, Min({k + n, L}))
                    /\ c.page_info.has_next_page = (k + n < L)

C6_Witness ==
    /\ Completed
    /\ dataLen = 7
    /\ args.first = <<3>>
    /\ args.after = <<offset_to_cursor(2)>>
    /\ args.last = <<>>
    /\ args.before = <<>>
    /\ Nodes(returned.value) = <<4, 5, 6>>
    /\ returned.value.page_info.has_next_page

(* C7: when resolve_connection is called on None the default query is built
   with the values of the sort entries as its order-by clauses in the given
   sequence, one clause for a single sort value, none for no sort; on any
   other value no query is built. *)
C7_DefaultQuerySorted ==
    /\ rcLog = <<>> => queryLog = <<>>
    /\ \A i \in 1..Len(rcLog) :
          IF rcLog[i] = NoValue
          THEN /\ Len(queryLog) = 1
               /\ queryLog[1].kind = "query"
               /\ returned.value.iterable = queryLog[1]
               /\ IF args.sort = <<>> THEN queryLog[1].order_by = <<>>
                  ELSE /\ Len(queryLog[1].order_by) = Len(args.sort[1].items)
                       /\ \A j \in 1..Len(args.sort[1].items) :
                             queryLog[1].order_by[j] = args.sort[1].items[j].value
          ELSE /\ queryLog = <<>>
               /\ returned.value.iterable = rcLog[i]

C7_Witness ==
    /\ Completed
    /\ rcLog[1] = NoValue
    /\ args.sort = <<[isstr |-> FALSE,
                      items |-> <<EnumValue("A_DESC", "a desc"), EnumValue("B_ASC", "b asc")>>]>>
    /\ queryLog = <<Value("query", dataLen, <<"a desc", "b asc">>)>>

====
